---------------------------- MODULE Spec2Model ----------------------------
(***************************************************************************)
(* The user-registration service of src/src/index.ts and src/src/schema.ts *)
(* as a state machine: three Express handlers (POST /signup,               *)
(* GET /user/badapproach, GET /user/goodapproach) that talk to PostgreSQL  *)
(* through pool.query of a pg Pool.  Every await of the handlers is a      *)
(* step; every pool.query checks a client out of the pool, runs one        *)
(* statement on that client's session and releases the client again.       *)
(*                                                                         *)
(* Text values are sequences of one-character strings; the JavaScript      *)
(* value undefined (a missing body field or query parameter, sent to the   *)
(* database as NULL) is the value Undefined.                               *)
(***************************************************************************)
EXTENDS Integers, Sequences, FiniteSets, TLC

(***************************************************************************)
(* Bounds of the model.                                                    *)
(***************************************************************************)
\* Size of the pg Pool (its `max` option; index.ts sets none).
MaxClients == 1
\* Number of HTTP requests of one run; their handlers may all run at once.
NumRequests == 2

\* A run under load has one request more, and its pool may have one client
\* more.
Clients == 1..(MaxClients + 1)
Reqs == 1..(NumRequests + 1)

(***************************************************************************)
(* Values.                                                                 *)
(***************************************************************************)
Undefined == <<"undefined">>

IsString(v) == v # Undefined

Lower == {"a","b","c","d","e","f","g","h","i","j","k","l","m",
          "n","o","p","q","r","s","t","u","v","w","x","y","z"}
Upper == {"A","B","C","D","E","F","G","H","I","J","K","L","M",
          "N","O","P","Q","R","S","T","U","V","W","X","Y","Z"}
Digit == {"0","1","2","3","4","5","6","7","8","9"}

Range(s) == {s[i] : i \in DOMAIN s}

\* A text of n copies of the character ch.
Repeat(ch, n) == [i \in 1..n |-> ch]

(***************************************************************************)
(* The zod schemas (index.ts 13-19).                                       *)
(***************************************************************************)
\* zod.string().regex(/^[a-z A-Z\d]{2,20}$/)
usernameLenOk(v) == Len(v) >= 2 /\ Len(v) <= 20
usernameSchema(v) ==
    /\ IsString(v)
    /\ usernameLenOk(v)
    /\ Range(v) \subseteq (Lower \cup Upper \cup Digit \cup {" "})

\* zod.string().email(): one "@"; a local part of letters, digits and
\* _ ' + - . that neither starts nor ends with a dot; no ".." anywhere; a
\* domain of dot-separated labels (a letter or digit, then letters, digits
\* and hyphens) that ends with a top-level label of two or more letters.
emailSchema(v) ==
    /\ IsString(v)
    /\ Cardinality({i \in DOMAIN v : v[i] = "@"}) = 1
    /\ LET at == CHOOSE i \in DOMAIN v : v[i] = "@"
           local == SubSeq(v, 1, at - 1)
           dom == SubSeq(v, at + 1, Len(v))
           dots == {i \in DOMAIN dom : dom[i] = "."}
           alnum == Lower \cup Upper \cup Digit
       IN  /\ Len(local) >= 1
           /\ Range(local) \subseteq (alnum \cup {"_", "'", "+", "-", "."})
           /\ local[1] # "."
           /\ local[Len(local)] \in (alnum \cup {"_", "+", "-"})
           /\ \A i \in 1..(Len(v) - 1) : ~(v[i] = "." /\ v[i + 1] = ".")
           /\ dots # {}
           /\ Range(dom) \subseteq (alnum \cup {"-", "."})
           /\ dom[1] \in alnum
           /\ \A i \in dots : i < Len(dom) /\ dom[i + 1] \in alnum
           /\ LET last == CHOOSE i \in dots : \A j \in dots : j <= i
              IN  /\ Len(dom) - last >= 2
                  /\ \A i \in (last + 1)..Len(dom) : dom[i] \in (Lower \cup Upper)

\* zod.string(): any string, the empty one included; undefined fails.
passwordSchema(v) == IsString(v)
citySchema(v) == IsString(v)
countrySchema(v) == IsString(v)
streetSchema(v) == IsString(v)
pincodeSchema(v) == IsString(v)

\* The condition of the if at index.ts 36, negated: every safeParse succeeded.
AllValid(b) ==
    /\ usernameSchema(b.username)
    /\ emailSchema(b.email)
    /\ passwordSchema(b.password)
    /\ citySchema(b.city)
    /\ countrySchema(b.country)
    /\ streetSchema(b.street)
    /\ pincodeSchema(b.pincode)

(***************************************************************************)
(* bcrypt.hash(password, saltRounds) (index.ts 6, 44).                     *)
(***************************************************************************)
saltRounds == 10

\* bcrypt rejects a missing password ("data and salt arguments required").
bcryptThrows(password) == ~IsString(password)

\* The digest is 60 characters: "$2b$", the two digits of the cost, "$" and
\* 53 characters of salt and hash, which the model abstracts to "#".
bcryptHash(password, rounds) ==
    <<"$", "2", "b", "$">>
        \o <<CHOOSE d \in Digit : <<d>> = SubSeq(<<"0","1","2","3","4","5","6","7","8","9">>,
                                                 (rounds \div 10) + 1, (rounds \div 10) + 1),
             CHOOSE d \in Digit : <<d>> = SubSeq(<<"0","1","2","3","4","5","6","7","8","9">>,
                                                 (rounds % 10) + 1, (rounds % 10) + 1)>>
        \o <<"$">> \o Repeat("#", 53)

(***************************************************************************)
(* The database: the tables of schema.ts and one server session per        *)
(* connected client.  A row carries, beside its columns, the request that  *)
(* inserted it (req, 0 for a row that was there before the run);           *)
(* created_at is left out, nothing reads it.  A session in a transaction   *)
(* block (txn # 0: the request whose BEGIN opened it) holds the rows it    *)
(* inserted and has not committed yet.  PostgreSQL runs at READ COMMITTED: *)
(* a statement sees the committed rows and its own session's rows.         *)
(***************************************************************************)
NoSession == [txn |-> 0, users |-> {}, addresses |-> {}]

VisibleUsers(d, c) == d.users \cup d.session[c].users
VisibleAddresses(d, c) == d.addresses \cup d.session[c].addresses

\* The users that other sessions have inserted and not committed yet.
PendingUsers(d, c) == UNION {d.session[o].users : o \in Clients \ {c}}

\* VARCHAR(n) NOT NULL / VARCHAR(n) of schema.ts.
FitsNotNull(v, n) == IsString(v) /\ Len(v) <= n
FitsNullable(v, n) == IsString(v) => Len(v) <= n

\* BEGIN: opens a transaction block; a warning and nothing else inside one.
DoBegin(d, c, r) ==
    IF d.session[c].txn # 0 THEN d
    ELSE [d EXCEPT !.session[c].txn = r]

\* COMMIT: the session's rows become visible to all; a warning outside a block.
DoCommit(d, c) ==
    [d EXCEPT !.users = @ \cup d.session[c].users,
              !.addresses = @ \cup d.session[c].addresses,
              !.session[c] = NoSession]

\* ROLLBACK, and what the server does when a session's connection closes.
DoRollback(d, c) == [d EXCEPT !.session[c] = NoSession]

\* Where an INSERT puts its row: the open transaction, or the table at once
\* (a statement outside a transaction block commits by itself).
PutUser(d, c, row) ==
    IF d.session[c].txn # 0
    THEN [d EXCEPT !.session[c].users = @ \cup {row}]
    ELSE [d EXCEPT !.users = @ \cup {row}]

PutAddress(d, c, row) ==
    IF d.session[c].txn # 0
    THEN [d EXCEPT !.session[c].addresses = @ \cup {row}]
    ELSE [d EXCEPT !.addresses = @ \cup {row}]

\* users: username and email are UNIQUE (schema.ts 7-8).
UniqueClash(rows, username, email) ==
    \E u \in rows : u.username = username \/ u.email = email

\* InsertUsersOutcome without the UNIQUE constraint on email.
InsertUsersOutcomeEmailNotUnique(d, c, username, email, password) ==
    IF ~(FitsNotNull(username, 50) /\ FitsNotNull(email, 50) /\ FitsNotNull(password, 100))
    THEN "error"
    ELSE IF \E u \in VisibleUsers(d, c) : u.username = username THEN "error"
    ELSE IF \E u \in PendingUsers(d, c) : u.username = username THEN "wait"
    ELSE "ok"

\* INSERT INTO users ... RETURNING id (index.ts 58-59, schema.ts 4-12):
\* "error", "wait" (a row of another session's open transaction has the
\* same username or email: the statement waits for that transaction to
\* end) or "ok".  The username index is checked before the email index.
InsertUsersOutcome(d, c, username, email, password) ==
    IF ~(FitsNotNull(username, 50) /\ FitsNotNull(email, 50) /\ FitsNotNull(password, 100))
    THEN "error"
    ELSE IF \E u \in VisibleUsers(d, c) : u.username = username THEN "error"
    ELSE IF \E u \in PendingUsers(d, c) : u.username = username THEN "wait"
    ELSE IF \E u \in VisibleUsers(d, c) : u.email = email THEN "error"
    ELSE IF \E u \in PendingUsers(d, c) : u.email = email THEN "wait"
    ELSE "ok"

\* The SERIAL id is drawn from the sequence whether or not the row goes in.
InsertUsers(d, c, r, username, email, password) ==
    LET id == d.users_id_seq + 1
        drawn == [d EXCEPT !.users_id_seq = id]
    IN  IF InsertUsersOutcome(d, c, username, email, password) = "ok"
        THEN [err |-> FALSE, rows |-> {[id |-> id]},
              db |-> PutUser(drawn, c, [id |-> id, username |-> username, email |-> email,
                                        password |-> password, req |-> r])]
        ELSE [err |-> TRUE, rows |-> {}, db |-> drawn]

\* FOREIGN KEY (user_id) REFERENCES users(id): the referenced row must be
\* committed or the session's own (schema.ts 23).
ForeignKeyOk(d, c, user_id) == \E u \in VisibleUsers(d, c) : u.id = user_id

\* INSERT INTO addresses (index.ts 61-63, schema.ts 14-24).
InsertAddresses(d, c, r, user_id, city, country, street, pincode) ==
    LET id == d.addresses_id_seq + 1
        drawn == [d EXCEPT !.addresses_id_seq = id]
    IN  IF /\ FitsNotNull(city, 100)
           /\ FitsNotNull(country, 100)
           /\ FitsNotNull(street, 100)
           /\ FitsNullable(pincode, 20)
           /\ ForeignKeyOk(d, c, user_id)
        THEN [err |-> FALSE, rows |-> {},
              db |-> PutAddress(drawn, c, [id |-> id, user_id |-> user_id, city |-> city,
                                           country |-> country, street |-> street,
                                           pincode |-> pincode, req |-> r])]
        ELSE [err |-> TRUE, rows |-> {}, db |-> drawn]

\* The text of a query parameter read as an integer: the decimal value of a
\* nonempty string of digits, -1 for any other text (the server rejects it:
\* "invalid input syntax for type integer").
DigitValue(ch) == CHOOSE n \in 0..9 : <<"0","1","2","3","4","5","6","7","8","9">>[n + 1] = ch

RECURSIVE ParseDigits(_)
ParseDigits(s) ==
    IF s = <<>> THEN 0
    ELSE 10 * ParseDigits(SubSeq(s, 1, Len(s) - 1)) + DigitValue(s[Len(s)])

ParseInt(s) == IF s # <<>> /\ Range(s) \subseteq Digit THEN ParseDigits(s) ELSE -1

\* SELECT id, username, email FROM users WHERE id = $1 (index.ts 116-118).
\* An undefined parameter is NULL, and id = NULL selects nothing.
SelectUser(d, c, id) ==
    IF ~IsString(id) THEN [err |-> FALSE, rows |-> {}, db |-> d]
    ELSE IF ParseInt(id) < 0 THEN [err |-> TRUE, rows |-> {}, db |-> d]
    ELSE [err |-> FALSE, db |-> d,
          rows |-> {[id |-> u.id, username |-> u.username, email |-> u.email] :
                        u \in {x \in VisibleUsers(d, c) : x.id = ParseInt(id)}}]

\* SelectAddresses without its WHERE clause.
SelectAddressesUnfiltered(d, c, id) ==
    IF ~IsString(id) THEN [err |-> FALSE, rows |-> {}, db |-> d]
    ELSE IF ParseInt(id) < 0 THEN [err |-> TRUE, rows |-> {}, db |-> d]
    ELSE [err |-> FALSE, db |-> d,
          rows |-> {[id |-> a.id, user_id |-> a.user_id, city |-> a.city, country |-> a.country,
                     street |-> a.street, pincode |-> a.pincode] :
                        a \in VisibleAddresses(d, c)}]

\* SELECT * FROM addresses WHERE user_id = $1 (index.ts 134-136).
SelectAddresses(d, c, id) ==
    IF ~IsString(id) THEN [err |-> FALSE, rows |-> {}, db |-> d]
    ELSE IF ParseInt(id) < 0 THEN [err |-> TRUE, rows |-> {}, db |-> d]
    ELSE [err |-> FALSE, db |-> d,
          rows |-> {[id |-> a.id, user_id |-> a.user_id, city |-> a.city, country |-> a.country,
                     street |-> a.street, pincode |-> a.pincode] :
                        a \in {x \in VisibleAddresses(d, c) : x.user_id = ParseInt(id)}}]

\* JoinRows without its ON condition.
JoinRowsCross(us, as) ==
    {[id |-> p[1].id, username |-> p[1].username, email |-> p[1].email,
      city |-> p[2].city, country |-> p[2].country, street |-> p[2].street,
      pincode |-> p[2].pincode] : p \in us \X as}

\* SELECT ... FROM users JOIN addresses ON users.id = addresses.user_id
\* WHERE users.id = $1 (index.ts 255-261): one row per address of the user.
JoinRows(us, as) ==
    {[id |-> p[1].id, username |-> p[1].username, email |-> p[1].email,
      city |-> p[2].city, country |-> p[2].country, street |-> p[2].street,
      pincode |-> p[2].pincode] : p \in {q \in us \X as : q[1].id = q[2].user_id}}

\* SelectJoin with its WHERE clause dropped when the parameter is undefined.
SelectJoinAbsentIdMatchesAll(d, c, id) ==
    IF ~IsString(id)
    THEN [err |-> FALSE, db |-> d,
          rows |-> JoinRows(VisibleUsers(d, c), VisibleAddresses(d, c))]
    ELSE IF ParseInt(id) < 0 THEN [err |-> TRUE, rows |-> {}, db |-> d]
    ELSE [err |-> FALSE, db |-> d,
          rows |-> JoinRows({x \in VisibleUsers(d, c) : x.id = ParseInt(id)},
                            VisibleAddresses(d, c))]

\* SELECT users.id, users.username, users.email, addresses.city, ... FROM
\* users JOIN addresses ON users.id = addresses.user_id WHERE users.id = $1
\* (index.ts 255-263).
SelectJoin(d, c, id) ==
    IF ~IsString(id) THEN [err |-> FALSE, rows |-> {}, db |-> d]
    ELSE IF ParseInt(id) < 0 THEN [err |-> TRUE, rows |-> {}, db |-> d]
    ELSE [err |-> FALSE, db |-> d,
          rows |-> JoinRows({x \in VisibleUsers(d, c) : x.id = ParseInt(id)},
                            VisibleAddresses(d, c))]

(***************************************************************************)
(* The requests of a run.                                                  *)
(***************************************************************************)
\* The registration of the scenario: al, a@b.com, x, NY, US, Main, 10001.
Valid1 ==
    [username |-> <<"a","l">>, email |-> <<"a","@","b",".","c","o","m">>,
     password |-> <<"x">>, city |-> <<"N","Y">>, country |-> <<"U","S">>,
     street |-> <<"M","a","i","n">>, pincode |-> <<"1","0","0","0","1">>]

NoBody ==
    [username |-> Undefined, email |-> Undefined, password |-> Undefined,
     city |-> Undefined, country |-> Undefined, street |-> Undefined,
     pincode |-> Undefined]

\* The bodies POST /signup is called with: valid ones that share a username,
\* an email or neither; one body per field with that field alone invalid;
\* and a valid body whose city does not fit the column.
Bodies ==
    { Valid1,
      [Valid1 EXCEPT !.email = <<"c","@","d",".","i","o">>],
      [Valid1 EXCEPT !.username = <<"B","o"," ","2">>],
      [Valid1 EXCEPT !.username = <<"a">>],
      [Valid1 EXCEPT !.email = <<"a","b">>],
      [Valid1 EXCEPT !.password = Undefined],
      [Valid1 EXCEPT !.city = Undefined],
      [Valid1 EXCEPT !.country = Undefined],
      [Valid1 EXCEPT !.street = Undefined],
      [Valid1 EXCEPT !.pincode = Undefined],
      [Valid1 EXCEPT !.city = Repeat("y", 101)] }

\* The id query parameter of the lookups: numeric, not numeric, absent.
Ids == { <<"1">>, <<"2">>, <<"3">>, <<"x">>, Undefined }

Signup(b) == [route |-> "signup", body |-> b, id |-> Undefined]
Lookup(route, id) == [route |-> route, body |-> NoBody, id |-> id]

\* The requests of a registration workload: every body, and two lookups that
\* run between the registrations' statements (one that finds a registered
\* user, one whose query fails).
SignupLoad ==
    {Signup(b) : b \in Bodies}
        \cup {Lookup("badapproach", <<"1">>), Lookup("goodapproach", <<"x">>)}

\* The requests of a workload of registrations that pass validation and fit
\* the columns, with the same two lookups.
ValidLoad ==
    {Signup(b) : b \in {x \in Bodies : AllValid(x) /\ Len(x.city) <= 100}}
        \cup {Lookup("badapproach", <<"1">>), Lookup("goodapproach", <<"x">>)}

\* The requests of a lookup workload: both lookups with every id, and
\* registrations of one user.
LookupLoad ==
    {Lookup(route, id) : route \in {"badapproach", "goodapproach"}, id \in Ids}
        \cup {Signup(Valid1)}

BusyLoad == ValidLoad \cup {Lookup("goodapproach", <<"1">>)}

NoRequest == [route |-> "none", body |-> NoBody, id |-> Undefined]

\* What the tables hold when the service starts: nothing, or the rows of
\* earlier runs (CREATE TABLE IF NOT EXISTS keeps them), here one user with
\* two addresses and one user with none.
Old1 ==
    [id |-> 1, username |-> <<"z","e","d">>, email |-> <<"z","@","e",".","d","e">>,
     password |-> bcryptHash(<<"p">>, saltRounds), req |-> 0]

Old2 ==
    [id |-> 2, username |-> <<"y","o">>, email |-> <<"y","@","o",".","y","o">>,
     password |-> bcryptHash(<<"q">>, saltRounds), req |-> 0]

OldAddress(id, city) ==
    [id |-> id, user_id |-> 1, city |-> city, country |-> <<"D","E">>,
     street |-> <<"W","e","g">>, pincode |-> Undefined, req |-> 0]

EmptyStore ==
    [users |-> {}, addresses |-> {}, users_id_seq |-> 0, addresses_id_seq |-> 0]

OldStore ==
    [users |-> {Old1, Old2},
     addresses |-> {OldAddress(1, <<"B","e","r","n">>), OldAddress(2, <<"U","l","m">>)},
     users_id_seq |-> 2, addresses_id_seq |-> 2]

(***************************************************************************)
(* State.                                                                  *)
(***************************************************************************)
VARIABLES
    db,            \* the tables, their id sequences and the sessions
    idle,          \* the pool's idle clients, the last released on top
    pendingQueue,  \* the requests waiting for a client, the oldest first
    conn,          \* per request: the client its statement runs on, or 0
    pc,            \* per request: where its handler is
    req,           \* per request: route, body, id
    userId,        \* per request: usersRes.rows[0].id (index.ts 70), or 0
    user,          \* per request: userRes.rows[0] (index.ts 131), as a set
    caught,        \* per request: what threw into the catch block, or "none"
    res,           \* per request: the response sent, status 0 while none
    sends,         \* per request: the calls of res.status(..).json(..)
    mixed,         \* per request: a statement of its transaction ran on a
                   \* session whose transaction block another request opened
                   \* or that had none
    crossed,       \* per request: its COMMIT or ROLLBACK ended a transaction
                   \* holding rows of another request
    taken,         \* per request: when it arrived, a committed user had the
                   \* username or the email of its body
    asked,         \* per request: the statements it has issued
    seen,          \* per request: the users and the addresses its session
                   \* could see when its SELECTs ran
    peers,         \* per request: the requests in flight when it arrived
    poolMax,       \* the clients the pool of this run may hold
    numReqs        \* the requests that arrive in this run

vars == <<db, idle, pendingQueue, conn, pc, req, userId, user, caught, res, sends,
          mixed, crossed, taken, asked, seen, peers, poolMax, numReqs>>

\* The size of a run does not change.
run == <<poolMax, numReqs>>

Statements ==
    {"BEGIN", "INSERT_USERS", "INSERT_ADDRESSES", "COMMIT", "ROLLBACK",
     "SELECT_USER", "SELECT_ADDRESSES", "SELECT_JOIN"}

Terminal == {"done", "unhandled"}

NoRes == [status |-> 0, message |-> "", user |-> {}, addresses |-> {}, userAndAddresses |-> {}]

Message(status, text) == [NoRes EXCEPT !.status = status, !.message = text]

Start(stores, clients, requests) ==
    /\ \E s \in stores :
          db = [users |-> s.users, addresses |-> s.addresses,
                users_id_seq |-> s.users_id_seq, addresses_id_seq |-> s.addresses_id_seq,
                session |-> [c \in Clients |-> NoSession]]
    /\ idle = <<>>
    /\ pendingQueue = <<>>
    /\ conn = [r \in Reqs |-> 0]
    /\ pc = [r \in Reqs |-> "new"]
    /\ req = [r \in Reqs |-> NoRequest]
    /\ userId = [r \in Reqs |-> 0]
    /\ user = [r \in Reqs |-> {}]
    /\ caught = [r \in Reqs |-> "none"]
    /\ res = [r \in Reqs |-> NoRes]
    /\ sends = [r \in Reqs |-> 0]
    /\ mixed = [r \in Reqs |-> FALSE]
    /\ crossed = [r \in Reqs |-> FALSE]
    /\ taken = [r \in Reqs |-> FALSE]
    /\ asked = [r \in Reqs |-> {}]
    /\ seen = [r \in Reqs |-> [users |-> {}, addresses |-> {}]]
    /\ peers = [r \in Reqs |-> {}]
    /\ poolMax \in clients
    /\ numReqs = requests

Init == Start({EmptyStore}, {MaxClients}, NumRequests)

InitLookup == Start({EmptyStore, OldStore}, {MaxClients}, NumRequests)

\* Under load: one request more, with a pool of either size.
InitBusy == Start({EmptyStore}, {MaxClients, MaxClients + 1}, NumRequests + 1)

(***************************************************************************)
(* The pg Pool behind pool.query (index.ts 295-298).  A pool is the record *)
(* [idle, pendingQueue, conn].                                             *)
(***************************************************************************)
Connected(p) == Range(p.idle) \cup {p.conn[r] : r \in {x \in Reqs : p.conn[x] # 0}}

\* pool.connect: the idle client released last; with none idle a new client
\* while the pool is not full; otherwise the request waits in the queue.
Acquire(p, r) ==
    IF p.idle # <<>>
    THEN [p EXCEPT !.conn[r] = p.idle[Len(p.idle)],
                   !.idle = SubSeq(p.idle, 1, Len(p.idle) - 1)]
    ELSE IF Cardinality(Connected(p)) < poolMax
    THEN [p EXCEPT !.conn[r] = CHOOSE c \in Clients \ Connected(p) :
                                   \A o \in Clients \ Connected(p) : c <= o]
    ELSE [p EXCEPT !.pendingQueue = Append(p.pendingQueue, r)]

\* client.release(err) and the pulse of the queue that follows it: after an
\* error the client is removed from the pool, otherwise it becomes idle; the
\* oldest waiting request then gets a client.
Release(p, r, err) ==
    LET c == p.conn[r]
        freed == [p EXCEPT !.conn[r] = 0,
                           !.idle = IF err THEN p.idle ELSE Append(p.idle, c)]
    IN  IF freed.pendingQueue = <<>> THEN freed
        ELSE Acquire([freed EXCEPT !.pendingQueue = Tail(freed.pendingQueue)],
                     Head(freed.pendingQueue))

Pool == [idle |-> idle, pendingQueue |-> pendingQueue, conn |-> conn]

SetPool(p) ==
    /\ idle' = p.idle
    /\ pendingQueue' = p.pendingQueue
    /\ conn' = p.conn

\* pool.query(text, values) is called: the handler moves to the statement
\* and asks the pool for a client.
Issue(r, statement, p) ==
    /\ pc' = [pc EXCEPT ![r] = statement]
    /\ asked' = [asked EXCEPT ![r] = @ \cup {statement}]
    /\ SetPool(Acquire(p, r))

\* The handler ends: nothing more is issued.
End(r, how, p) ==
    /\ pc' = [pc EXCEPT ![r] = how]
    /\ asked' = asked
    /\ SetPool(p)

\* The statement of request r has run with this result: an error closes the
\* client's connection, which ends its session and rolls its transaction back.
Settled(r, result) ==
    IF result.err THEN DoRollback(result.db, conn[r]) ELSE result.db

Running(r, statement) == pc[r] = statement /\ conn[r] # 0

\* res.status(..).json(..) throws once a response has been sent
\* (ERR_HTTP_HEADERS_SENT).
HeadersSent(r) == res[r].status # 0

Txn(r) == db.session[conn[r]].txn

NotOwn(r) == Txn(r) # r

Foreign(r) == Txn(r) \notin {0, r}

OthersRows(r) ==
    \E row \in db.session[conn[r]].users \cup db.session[conn[r]].addresses : row.req # r

InFlight == {o \in Reqs : pc[o] \notin {"new"} \cup Terminal}

\* Requests arrive in the order of their numbers.
MayStart(r) ==
    /\ pc[r] = "new"
    /\ r <= numReqs
    /\ \A o \in Reqs : o < r => pc[o] # "new"

(***************************************************************************)
(* POST /signup (index.ts 21-98).                                          *)
(***************************************************************************)
\* index.ts 24-44: the body is validated and a failure answered with 401;
\* there is no return, the handler goes on to hash the password.  A password
\* that bcrypt rejects throws into the catch block, which issues ROLLBACK.
SignupStart(r, load) ==
    /\ MayStart(r)
    /\ \E q \in load :
          /\ q.route = "signup"
          /\ req' = [req EXCEPT ![r] = q]
          /\ res' = [res EXCEPT ![r] = IF AllValid(q.body) THEN @
                                        ELSE Message(401, "Invalid Entry")]
          /\ sends' = [sends EXCEPT ![r] = IF AllValid(q.body) THEN @ ELSE @ + 1]
          /\ IF bcryptThrows(q.body.password)
             THEN /\ caught' = [caught EXCEPT ![r] = "hash"]
                  /\ Issue(r, "ROLLBACK", Pool)
             ELSE /\ caught' = caught
                  /\ End(r, "hash", Pool)
          /\ taken' = [taken EXCEPT ![r] = UniqueClash(db.users, q.body.username, q.body.email)]
    /\ peers' = [peers EXCEPT ![r] = InFlight]
    /\ UNCHANGED <<db, userId, user, mixed, crossed, seen, run>>

\* index.ts 44-55: the hash is there; BEGIN is issued.
HashDone(r) ==
    /\ pc[r] = "hash"
    /\ Issue(r, "BEGIN", Pool)
    /\ UNCHANGED <<db, req, userId, user, caught, res, sends, mixed, crossed, taken, seen, peers, run>>

\* What the try block does after a statement that returns nothing it reads:
\* on success the next statement, on an error the catch block's ROLLBACK.
Proceed(r, result, next) ==
    /\ db' = Settled(r, result)
    /\ caught' = [caught EXCEPT ![r] = IF result.err THEN pc[r] ELSE @]
    /\ Issue(r, IF result.err THEN "ROLLBACK" ELSE next, Release(Pool, r, result.err))

\* index.ts 55: BEGIN has run.
Begin(r) ==
    /\ Running(r, "BEGIN")
    /\ Proceed(r, [err |-> FALSE, rows |-> {}, db |-> DoBegin(db, conn[r], r)], "INSERT_USERS")
    /\ mixed' = [mixed EXCEPT ![r] = @ \/ Foreign(r)]
    /\ UNCHANGED <<req, userId, user, res, sends, crossed, taken, seen, peers, run>>

\* index.ts 66-70: the INSERT into users has run; its id is kept.
InsertUser(r) ==
    /\ Running(r, "INSERT_USERS")
    /\ LET b == req[r].body
           hashedPassword == bcryptHash(b.password, saltRounds)
       IN  /\ InsertUsersOutcome(db, conn[r], b.username, b.email, hashedPassword) # "wait"
           /\ LET result == InsertUsers(db, conn[r], r, b.username, b.email, hashedPassword)
              IN  /\ Proceed(r, result, "INSERT_ADDRESSES")
                  /\ userId' = [userId EXCEPT ![r] =
                                   IF result.err THEN @
                                   ELSE (CHOOSE row \in result.rows : TRUE).id]
    /\ mixed' = [mixed EXCEPT ![r] = @ \/ NotOwn(r)]
    /\ UNCHANGED <<req, user, res, sends, crossed, taken, seen, peers, run>>

\* index.ts 73: the INSERT into addresses has run.
InsertAddress(r) ==
    /\ Running(r, "INSERT_ADDRESSES")
    /\ LET b == req[r].body
       IN  Proceed(r, InsertAddresses(db, conn[r], r, userId[r], b.city, b.country,
                                      b.street, b.pincode), "COMMIT")
    /\ mixed' = [mixed EXCEPT ![r] = @ \/ NotOwn(r)]
    /\ UNCHANGED <<req, userId, user, res, sends, crossed, taken, seen, peers, run>>

\* index.ts 78-82: COMMIT has run; 201 is sent, which throws into the catch
\* block when the 401 went out before.
Commit(r) ==
    /\ Running(r, "COMMIT")
    /\ db' = DoCommit(db, conn[r])
    /\ sends' = [sends EXCEPT ![r] = @ + 1]
    /\ IF HeadersSent(r)
       THEN /\ caught' = [caught EXCEPT ![r] = "send"]
            /\ res' = res
            /\ Issue(r, "ROLLBACK", Release(Pool, r, FALSE))
       ELSE /\ caught' = caught
            /\ res' = [res EXCEPT ![r] = Message(201, "Data Inserted Successfully")]
            /\ End(r, "done", Release(Pool, r, FALSE))
    /\ mixed' = [mixed EXCEPT ![r] = @ \/ NotOwn(r)]
    /\ crossed' = [crossed EXCEPT ![r] = @ \/ OthersRows(r)]
    /\ UNCHANGED <<req, userId, user, taken, seen, peers, run>>

\* index.ts 85-93: the catch block's ROLLBACK has run; 500 is sent, which
\* throws out of the handler when a response went out before.
Rollback(r) ==
    /\ Running(r, "ROLLBACK")
    /\ db' = DoRollback(db, conn[r])
    /\ sends' = [sends EXCEPT ![r] = @ + 1]
    /\ IF HeadersSent(r)
       THEN /\ res' = res
            /\ End(r, "unhandled", Release(Pool, r, FALSE))
       ELSE /\ res' = [res EXCEPT ![r] = Message(500, "Error Inserting Data")]
            /\ End(r, "done", Release(Pool, r, FALSE))
    /\ mixed' = [mixed EXCEPT ![r] = @ \/ Foreign(r)]
    /\ crossed' = [crossed EXCEPT ![r] = @ \/ OthersRows(r)]
    /\ UNCHANGED <<req, userId, user, caught, taken, seen, peers, run>>

(***************************************************************************)
(* GET /user/badapproach (index.ts 101-159).                               *)
(***************************************************************************)
\* index.ts 113-121: the query for the user is issued.
BadStart(r, load) ==
    /\ MayStart(r)
    /\ \E q \in load :
          /\ q.route = "badapproach"
          /\ req' = [req EXCEPT ![r] = q]
    /\ Issue(r, "SELECT_USER", Pool)
    /\ peers' = [peers EXCEPT ![r] = InFlight]
    /\ UNCHANGED <<db, userId, user, caught, res, sends, mixed, crossed, taken, seen, run>>

\* index.ts 121-139: no row is answered with 404; otherwise the first row is
\* kept and the query for the addresses issued.  An error is answered with
\* 500 (index.ts 151-158).
SelectUserDone(r) ==
    /\ Running(r, "SELECT_USER")
    /\ LET result == SelectUser(db, conn[r], req[r].id)
           p == Release(Pool, r, result.err)
       IN  /\ db' = Settled(r, result)
           /\ IF result.err
              THEN /\ res' = [res EXCEPT ![r] = Message(500, "Error Fetching Data")]
                   /\ sends' = [sends EXCEPT ![r] = @ + 1]
                   /\ user' = user
                   /\ End(r, "done", p)
              ELSE IF Cardinality(result.rows) = 0
              THEN /\ res' = [res EXCEPT ![r] = Message(404, "User Not Found")]
                   /\ sends' = [sends EXCEPT ![r] = @ + 1]
                   /\ user' = user
                   /\ End(r, "done", p)
              ELSE /\ \E row \in result.rows : user' = [user EXCEPT ![r] = {row}]
                   /\ UNCHANGED <<res, sends>>
                   /\ Issue(r, "SELECT_ADDRESSES", p)
    /\ mixed' = [mixed EXCEPT ![r] = @ \/ Foreign(r)]
    /\ seen' = [seen EXCEPT ![r].users = VisibleUsers(db, conn[r])]
    /\ UNCHANGED <<req, userId, caught, crossed, taken, peers, run>>

\* index.ts 139-148: the user and all the rows of the second query are sent.
SelectAddressesDone(r) ==
    /\ Running(r, "SELECT_ADDRESSES")
    /\ LET result == SelectAddresses(db, conn[r], req[r].id)
       IN  /\ db' = Settled(r, result)
           /\ res' = [res EXCEPT ![r] =
                         IF result.err THEN Message(500, "Error Fetching Data")
                         ELSE [NoRes EXCEPT !.status = 200, !.user = user[r],
                                            !.addresses = result.rows]]
           /\ End(r, "done", Release(Pool, r, result.err))
    /\ sends' = [sends EXCEPT ![r] = @ + 1]
    /\ mixed' = [mixed EXCEPT ![r] = @ \/ Foreign(r)]
    /\ seen' = [seen EXCEPT ![r].addresses = VisibleAddresses(db, conn[r])]
    /\ UNCHANGED <<req, userId, user, caught, crossed, taken, peers, run>>

(***************************************************************************)
(* GET /user/goodapproach (index.ts 162-285).                              *)
(***************************************************************************)
\* index.ts 252-263: the join is issued.
GoodStart(r, load) ==
    /\ MayStart(r)
    /\ \E q \in load :
          /\ q.route = "goodapproach"
          /\ req' = [req EXCEPT ![r] = q]
    /\ Issue(r, "SELECT_JOIN", Pool)
    /\ peers' = [peers EXCEPT ![r] = InFlight]
    /\ UNCHANGED <<db, userId, user, caught, res, sends, mixed, crossed, taken, seen, run>>

\* index.ts 263-284: no row is answered with 404, otherwise the first row of
\* the result is sent (the query has no ORDER BY: any of the rows may be the
\* first); an error is answered with 500.
SelectJoinDone(r) ==
    /\ Running(r, "SELECT_JOIN")
    /\ LET result == SelectJoin(db, conn[r], req[r].id)
       IN  /\ db' = Settled(r, result)
           /\ IF result.err
              THEN res' = [res EXCEPT ![r] = Message(500, "Error Fetching Data")]
              ELSE IF Cardinality(result.rows) = 0
              THEN res' = [res EXCEPT ![r] = Message(404, "User Not Found")]
              ELSE \E row \in result.rows :
                      res' = [res EXCEPT ![r] =
                                 [NoRes EXCEPT !.status = 200, !.userAndAddresses = {row}]]
           /\ End(r, "done", Release(Pool, r, result.err))
    /\ sends' = [sends EXCEPT ![r] = @ + 1]
    /\ mixed' = [mixed EXCEPT ![r] = @ \/ Foreign(r)]
    /\ seen' = [seen EXCEPT ![r] = [users |-> VisibleUsers(db, conn[r]),
                                    addresses |-> VisibleAddresses(db, conn[r])]]
    /\ UNCHANGED <<req, userId, user, caught, crossed, taken, peers, run>>

(***************************************************************************)
(* The pool closes a client that stays idle (idleTimeoutMillis); the       *)
(* server ends its session and rolls back what it had not committed.       *)
(***************************************************************************)
IdleTimeout(c) ==
    /\ c \in Range(idle)
    /\ idle' = SelectSeq(idle, LAMBDA x : x # c)
    /\ db' = DoRollback(db, c)
    /\ UNCHANGED <<pendingQueue, conn, pc, req, userId, user, caught, res, sends,
                   mixed, crossed, taken, asked, seen, peers, run>>

(***************************************************************************)
(* The connection of the client breaks before the server has run the       *)
(* statement: pool.query rejects, the statement has no effect and the      *)
(* session is gone.  In POST /signup a statement of the try block throws   *)
(* into the catch block (index.ts 84-86); the ROLLBACK of the catch block  *)
(* throws out of the handler before res.status(500) (index.ts 86-89), and  *)
(* the client gets what the framework does with the rejected promise:      *)
(* nothing (Express 4) or the 500 of its own error handler (Express 5).    *)
(* The lookups answer 500 (index.ts 151-158, 277-284).                     *)
(***************************************************************************)
ConnectionLost(r) ==
    /\ pc[r] \in Statements
    /\ conn[r] # 0
    /\ db' = DoRollback(db, conn[r])
    /\ LET p == Release(Pool, r, TRUE)
       IN  IF pc[r] \in {"BEGIN", "INSERT_USERS", "INSERT_ADDRESSES", "COMMIT"}
           THEN /\ caught' = [caught EXCEPT ![r] = pc[r]]
                /\ Issue(r, "ROLLBACK", p)
                /\ UNCHANGED <<res, sends>>
           ELSE IF pc[r] = "ROLLBACK"
           THEN /\ \E answered \in BOOLEAN :
                      res' = [res EXCEPT ![r] =
                                 IF answered /\ ~HeadersSent(r)
                                 THEN Message(500, "Internal Server Error") ELSE @]
                /\ End(r, "unhandled", p)
                /\ UNCHANGED <<caught, sends>>
           ELSE /\ res' = [res EXCEPT ![r] = Message(500, "Error Fetching Data")]
                /\ sends' = [sends EXCEPT ![r] = @ + 1]
                /\ End(r, "done", p)
                /\ caught' = caught
    /\ UNCHANGED <<req, userId, user, mixed, crossed, taken, seen, peers, run>>

Step(load) ==
    \/ \E r \in Reqs :
          \/ SignupStart(r, load)
          \/ HashDone(r)
          \/ Begin(r)
          \/ InsertUser(r)
          \/ InsertAddress(r)
          \/ Commit(r)
          \/ Rollback(r)
          \/ BadStart(r, load)
          \/ SelectUserDone(r)
          \/ SelectAddressesDone(r)
          \/ GoodStart(r, load)
          \/ SelectJoinDone(r)
    \/ \E c \in Clients : IdleTimeout(c)

\* Registrations on an empty database.
Next == Step(SignupLoad)

Spec == Init /\ [][Next]_vars

\* Valid registrations on an empty database.
NextValid == Step(ValidLoad)

SpecValid == Init /\ [][NextValid]_vars

\* Lookups on a database that may hold rows of earlier runs.
NextLookup == Step(LookupLoad)

SpecLookup == InitLookup /\ [][NextLookup]_vars

\* Valid registrations on an empty database, with connections that break.
NextFault ==
    \/ Step(ValidLoad)
    \/ \E r \in Reqs : ConnectionLost(r)

SpecFault == Init /\ [][NextFault]_vars

\* Registrations and lookups under load.
NextBusy == Step(BusyLoad)

SpecBusy == InitBusy /\ [][NextBusy]_vars

(***************************************************************************)
(* Properties.                                                             *)
(***************************************************************************)
UsersOf(r) == {u \in db.users : u.req = r}
AddressesOf(r) == {a \in db.addresses : a.req = r}

IsSignup(r) == req[r].route = "signup"

\* The COMMIT of request r has run.
CommitRan(r) == caught[r] = "send" \/ res[r].status = 201

\* C1: a POST /signup of which at least one field fails its validation rule
\* writes no row: no committed user and no committed address comes from a
\* request whose body is invalid.
InvalidSignupWritesNothing ==
    \A r \in Reqs :
        IsSignup(r) /\ ~AllValid(req[r].body) => UsersOf(r) = {} /\ AddressesOf(r) = {}

\* C2: registration is atomic: in every state the committed tables hold, of
\* each registration, both its user and its address or neither of them.
RegistrationAtomic ==
    /\ \A u \in db.users :
          u.req # 0 => \E a \in db.addresses : a.req = u.req /\ a.user_id = u.id
    /\ \A a \in db.addresses :
          a.req # 0 => \E u \in db.users : u.req = a.req /\ u.id = a.user_id

\* C3: a registration answered with 201 has added exactly one user and
\* exactly one address to the committed tables, the address referring to
\* the id generated for the user.
CreatedMeansOneUserOneAddress ==
    \A r \in Reqs :
        res[r].status = 201 =>
            /\ Cardinality(UsersOf(r)) = 1
            /\ Cardinality(AddressesOf(r)) = 1
            /\ \A u \in UsersOf(r) : \A a \in AddressesOf(r) : a.user_id = u.id

\* C4: a POST /signup with a valid body whose username or email a committed
\* user already has ends with the 500 response and has put no row into the
\* tables, committed or not.
DuplicateSignupRejected ==
    \A r \in Reqs :
        IsSignup(r) /\ AllValid(req[r].body) /\ taken[r] /\ pc[r] \in Terminal =>
            /\ res[r] = Message(500, "Error Inserting Data")
            /\ UsersOf(r) = {} /\ AddressesOf(r) = {}
            /\ \A c \in Clients :
                  \A row \in db.session[c].users \cup db.session[c].addresses : row.req # r

\* A registration with a taken username (and a free email) has been refused.
DuplicateSignupRejectedWitness ==
    \E r \in Reqs :
        /\ IsSignup(r) /\ AllValid(req[r].body) /\ taken[r] /\ pc[r] \in Terminal
        /\ \E u \in db.users : u.username = req[r].body.username /\ u.email # req[r].body.email
        /\ res[r].status = 500

\* C5: every statement of a registration's transaction runs on the session
\* whose transaction block the registration's own BEGIN opened, and no
\* statement of another request runs on a session inside that block.
TransactionOnOneSession == \A r \in Reqs : ~mixed[r]

\* C6: registrations are isolated: the tables show no row of a registration
\* whose COMMIT has not run; a registration answered with 201 has its user
\* and its address committed; one answered with 500 has no row in the
\* tables; and no COMMIT or ROLLBACK ends a transaction that holds rows of
\* another request.
RegistrationsIsolated ==
    \A r \in Reqs :
        /\ ~CommitRan(r) => UsersOf(r) = {} /\ AddressesOf(r) = {}
        /\ res[r].status = 201 => UsersOf(r) # {} /\ AddressesOf(r) # {}
        /\ res[r].status = 500 => UsersOf(r) = {} /\ AddressesOf(r) = {}
        /\ ~crossed[r]

\* C7: the registration workflow only moves along its state machine: a
\* request answered with 401 is finished (it neither hashes nor issues a
\* statement), and no ROLLBACK follows a COMMIT that has run.
WorkflowStateMachine ==
    \A r \in Reqs :
        /\ res[r].status = 401 => pc[r] = "done"
        /\ CommitRan(r) => pc[r] # "ROLLBACK" /\ "ROLLBACK" \notin asked[r]

\* The id of a lookup as the number it selects by; 0, which no row has, when
\* the parameter is absent.
Wanted(r) == IF IsString(req[r].id) THEN ParseInt(req[r].id) ELSE 0

\* The id is absent or a number: the statement does not fail on it.
WellFormedId(r) == Wanted(r) >= 0

SeenUser(r) == {u \in seen[r].users : u.id = Wanted(r)}
SeenAddresses(r) == {a \in seen[r].addresses : a.user_id = Wanted(r)}

RollbackBeforeGeneric500 ==
    \A r \in Reqs :
        caught[r] \in {"BEGIN", "INSERT_USERS", "INSERT_ADDRESSES", "COMMIT"} =>
            /\ pc[r] = "ROLLBACK" => res[r].status = 0
            /\ pc[r] \in Terminal => res[r] = Message(500, "Error Inserting Data")

\* The body has no pincode and its other six fields pass validation.
PincodeOmitted(b) ==
    /\ b.pincode = Undefined
    /\ AllValid([b EXCEPT !.pincode = Valid1.pincode])

\* C11: a registration whose pincode is absent and whose other six fields
\* are valid is not answered with 401; its response is 201 and its address
\* is stored with a NULL pincode.
PincodeOptional ==
    \A r \in Reqs :
        IsSignup(r) /\ PincodeOmitted(req[r].body) =>
            /\ res[r].status # 401
            /\ pc[r] \in Terminal =>
                  /\ res[r].status = 201
                  /\ \E a \in AddressesOf(r) : a.pincode = Undefined

\* C12: once a registration has reached its terminal outcome, no session
\* holds a transaction block which that request opened, nor uncommitted
\* rows which it inserted.
SessionsReleasedClean ==
    \A r \in Reqs : \A c \in Clients :
        IsSignup(r) /\ pc[r] \in Terminal =>
            /\ db.session[c].txn # r
            /\ \A u \in db.session[c].users : u.req # r
            /\ \A a \in db.session[c].addresses : a.req # r

\* The handlers of the two requests were running at the same time.
Concurrent(r, o) == r \in peers[o] \/ o \in peers[r]

SameIdentity(r, o) ==
    \/ req[r].body.username = req[o].body.username
    \/ req[r].body.email = req[o].body.email

\* C13: no two committed users share a username or an email; of two
\* registrations with the same username or email that ran at the same time,
\* at most one has a committed user row and at most one is answered 201.
UsersUnique ==
    /\ \A u, v \in db.users :
          u # v => u.username # v.username /\ u.email # v.email
    /\ \A r, o \in Reqs :
          r # o /\ IsSignup(r) /\ IsSignup(o) /\ Concurrent(r, o) /\ SameIdentity(r, o) =>
              /\ UsersOf(r) = {} \/ UsersOf(o) = {}
              /\ res[r].status # 201 \/ res[o].status # 201

IsLookup(r) == req[r].route \in {"badapproach", "goodapproach"}

EndedBefore(s, l) == s < l /\ pc[l] # "new" /\ s \notin peers[l]

\* C15: after a registration has been answered 201, a later lookup with the
\* id it generated is answered 200 with the username, email, city, country,
\* street and pincode of the registration; the two-query lookup returns
\* that user with exactly that one address.
SignupLookupRoundTrip ==
    \A s, l \in Reqs :
        /\ IsSignup(s) /\ res[s].status = 201 /\ EndedBefore(s, l)
        /\ IsLookup(l) /\ pc[l] \in Terminal
        /\ IsString(req[l].id) /\ Wanted(l) = userId[s]
        => LET b == req[s].body
           IN  /\ res[l].status = 200
               /\ req[l].route = "goodapproach" =>
                     res[l].userAndAddresses =
                        {[id |-> userId[s], username |-> b.username, email |-> b.email,
                          city |-> b.city, country |-> b.country, street |-> b.street,
                          pincode |-> b.pincode]}
               /\ req[l].route = "badapproach" =>
                     /\ res[l].user = {[id |-> userId[s], username |-> b.username,
                                        email |-> b.email]}
                     /\ Cardinality(res[l].addresses) = 1
                     /\ \A a \in res[l].addresses :
                           /\ a.user_id = userId[s]
                           /\ a.city = b.city /\ a.country = b.country
                           /\ a.street = b.street /\ a.pincode = b.pincode

\* C16: a registration issues ROLLBACK only after a statement between its
\* BEGIN and the end of its COMMIT has failed: not when its body failed
\* validation, not when hashing failed, not after its COMMIT; and its
\* ROLLBACK does not run in a transaction block another request opened.
RollbackOnlyInOwnTransaction ==
    \A r \in Reqs :
        IsSignup(r) /\ "ROLLBACK" \in asked[r] =>
            /\ AllValid(req[r].body)
            /\ caught[r] \in {"INSERT_USERS", "INSERT_ADDRESSES", "COMMIT"}
            /\ Running(r, "ROLLBACK") => ~Foreign(r)

\* C17: every request sends at most one response, a handler that has ended
\* has sent exactly one, and no handler ends with an exception thrown out
\* of it.
OneResponsePerRequest ==
    \A r \in Reqs :
        /\ sends[r] <= 1
        /\ pc[r] # "unhandled"
        /\ pc[r] = "done" => sends[r] = 1 /\ res[r].status # 0

\* C18: a registration whose handler has ended has been sent a response,
\* and when a statement of its transaction failed that response is the
\* generic 500.
EveryFailureAnswered ==
    \A r \in Reqs :
        IsSignup(r) /\ pc[r] \in Terminal =>
            /\ res[r].status # 0
            /\ caught[r] \in Statements => res[r] = Message(500, "Error Inserting Data")

=============================================================================
